---- MODULE Spec2Model ----
(***************************************************************************)
(* A model of crates-index (src/src/lib.rs): the local mirror of the       *)
(* crates.io index (exists / retrieve / update / retrieve_or_update), the  *)
(* lookup of one crate by name, the enumeration of the index tree, the     *)
(* parser of an index file and the codec of one version record.            *)
(***************************************************************************)
EXTENDS Integers, Sequences, FiniteSets, TLC

VARIABLES
    \* ---- the local mirror (Index::exists/retrieve/update) ----
    repo,        \* what git2::Repository::discover(&self.path) finds
    tips,        \* the tip of master at each remote URL
    debugBuild,  \* whether debug_assert! is compiled in
    lastOp,      \* the method of Index called last
    lastResult,  \* what it returned
    invoked,     \* the method retrieve_or_update() delegated to
    gitCalls,    \* the git2 calls the last method made, in order
    pre,         \* the mirror the last method found: its kind, and whether
                 \* its working tree held local modifications
    run,         \* history of retrieve_or_update() calls since the start
    \* ---- the index tree (Index::crate_, crates, crate_index_paths) ----
    tree,        \* the files under self.path: relative path -> content
    lkName,      \* the name crate_() is called with
    lkDone,      \* whether crate_() has returned
    lkPath,      \* the path it resolved (None when it resolved none)
    lkResult,    \* what it returned
    lkAccess,    \* the file-system calls it made, in order
    pathsIt,     \* CrateIndexPaths: the paths still to yield
    pathsOut,    \* the paths it has yielded
    cratesIt,    \* Crates: the paths still to visit
    cratesOut,   \* the crates it has yielded
    \* ---- Crate::from_slice ----
    bytes,       \* the content handed to from_slice
    parsed,      \* its result
    picked,      \* the result of earliest_version()/latest_version()
    \* ---- the record codec (serde derive on Version/Dependency) ----
    ver,         \* a Version
    wire,        \* its JSON encoding
    decoded      \* the result of decoding wire

mirrorVars == <<repo, tips, debugBuild, lastOp, lastResult, invoked, gitCalls, pre, run>>
lookupVars == <<lkName, lkDone, lkPath, lkResult, lkAccess>>
iterVars   == <<pathsIt, pathsOut, cratesIt, cratesOut>>
parseVars  == <<bytes, parsed, picked>>
codecVars  == <<ver, wire, decoded>>
vars == <<mirrorVars, tree, lookupVars, iterVars, parseVars, codecVars>>
restOfMirror == <<tree, lookupVars, iterVars, parseVars, codecVars>>

\* Option<T>: None is the empty sequence, Some(x) the one-element sequence.
None == <<>>
Some(x) == <<x>>

(***************************************************************************)
(* Bounds                                                                  *)
(***************************************************************************)
MaxCommit == 2       \* commits are 0..MaxCommit
MaxFiles == 4        \* index files in an enumerated tree
MaxNameLen == 5      \* characters in a name handed to crate_()
MaxBytes == 4        \* chunks in a content handed to from_slice()
MaxDeps == 1         \* dependencies of a Version

(***************************************************************************)
(* The local mirror                                                        *)
(***************************************************************************)
INDEX_GIT_URL == "https://github.com/rust-lang/crates.io-index"
\* Another upstream, and a URL whose bytes are not UTF-8 (Remote::url() is None).
OtherUrl   == "https://example.com/some-other-index"
NonUtf8Url == "file:///srv/index-\\xff"
RemoteUrls == {INDEX_GIT_URL, OtherUrl, NonUtf8Url}
Commits    == 0..MaxCommit

NoRepo == [present |-> FALSE]
Repos ==
    {NoRepo} \cup
    [present : {TRUE},
     origin : {None} \cup {Some(u) : u \in RemoteUrls},
     head : Commits,
     fetchHead : {None} \cup {Some(c) : c \in Commits},
     workTree : [content : Commits, modified : BOOLEAN]]

Clean(c) == [content |-> c, modified |-> FALSE]

\* Remote::url(): None when the URL is not valid UTF-8.
url(u) == IF u = NonUtf8Url THEN None ELSE Some(u)

\* Index::exists
exists_noOriginFalse(r) ==
    IF ~r.present THEN FALSE
    ELSE IF r.origin = None THEN FALSE
    ELSE IF url(r.origin[1]) = None THEN TRUE
    ELSE url(r.origin[1])[1] = INDEX_GIT_URL

exists(r) ==
    IF ~r.present THEN FALSE                      \* discover failed: unwrap_or(false)
    ELSE IF r.origin = None THEN TRUE             \* find_remote failed: map_or(true, ..)
    ELSE IF url(r.origin[1]) = None THEN TRUE     \* remote.url() is None: map_or(true, ..)
    ELSE url(r.origin[1])[1] = INDEX_GIT_URL

FailPoints == {"none", "clone", "fetch", "resolve", "reset"}

\* Index::retrieve: clone INDEX_GIT_URL into self.path.  git2 refuses to clone
\* onto an existing repository; otherwise the clone succeeds unless the
\* transport fails.
retrieve_otherUrl(r, t, fail, fh) ==
    IF r.present \/ fail = "clone"
    THEN [repo |-> r, result |-> "Err", calls |-> <<"clone">>]
    ELSE [repo |-> [present |-> TRUE, origin |-> Some(OtherUrl),
                    head |-> t[OtherUrl],
                    fetchHead |-> IF fh THEN Some(t[OtherUrl]) ELSE None,
                    workTree |-> Clean(t[OtherUrl])],
          result |-> "Ok", calls |-> <<"clone">>]

retrieve(r, t, fail, fh) ==
    IF r.present \/ fail = "clone"
    THEN [repo |-> r, result |-> "Err", calls |-> <<"clone">>]
    ELSE [repo |-> [present |-> TRUE, origin |-> Some(INDEX_GIT_URL),
                    head |-> t[INDEX_GIT_URL],
                    fetchHead |-> IF fh THEN Some(t[INDEX_GIT_URL]) ELSE None,
                    workTree |-> Clean(t[INDEX_GIT_URL])],
          result |-> "Ok", calls |-> <<"clone">>]

\* The remote update() fetches from: origin, or an anonymous remote to
\* INDEX_GIT_URL when there is no origin.
FetchUrl(r) == IF r.origin = None THEN INDEX_GIT_URL ELSE r.origin[1]
RemoteCalls(r) ==
    IF r.origin = None THEN <<"find_remote", "remote_anonymous">> ELSE <<"find_remote">>

\* Index::update
update_resetToHead(r, t, dbg, fail) ==
    IF dbg /\ ~exists(r)
    THEN [repo |-> r, result |-> "panic", calls |-> <<>>]
    ELSE IF ~r.present
    THEN [repo |-> r, result |-> "Err", calls |-> <<"discover">>]
    ELSE IF fail = "fetch"
    THEN [repo |-> r, result |-> "Err",
          calls |-> <<"discover">> \o RemoteCalls(r) \o <<"fetch">>]
    ELSE LET fetched == [r EXCEPT !.fetchHead = Some(t[FetchUrl(r)])]
             oid == r.head
         IN  [repo |-> [fetched EXCEPT !.head = oid, !.workTree = Clean(oid)],
              result |-> "Ok",
              calls |-> <<"discover">> \o RemoteCalls(r) \o
                        <<"fetch", "refname_to_id", "find_object", "reset">>]

update(r, t, dbg, fail) ==
    IF dbg /\ ~exists(r)                              \* debug_assert!(self.exists())
    THEN [repo |-> r, result |-> "panic", calls |-> <<>>]
    ELSE IF ~r.present                                \* Repository::discover(..)?
    THEN [repo |-> r, result |-> "Err", calls |-> <<"discover">>]
    ELSE IF fail = "fetch"                            \* origin_remote.fetch(..)?
    THEN [repo |-> r, result |-> "Err",
          calls |-> <<"discover">> \o RemoteCalls(r) \o <<"fetch">>]
    ELSE LET fetched == [r EXCEPT !.fetchHead = Some(t[FetchUrl(r)])]
             oid == fetched.fetchHead[1]              \* refname_to_id("FETCH_HEAD")
         IN  IF fail = "resolve"
             THEN [repo |-> fetched, result |-> "Err",
                   calls |-> <<"discover">> \o RemoteCalls(r) \o
                             <<"fetch", "refname_to_id">>]
             ELSE IF fail = "reset"                   \* repo.reset(.., Hard, ..)?
             THEN [repo |-> fetched, result |-> "Err",
                   calls |-> <<"discover">> \o RemoteCalls(r) \o
                             <<"fetch", "refname_to_id", "find_object", "reset">>]
             ELSE [repo |-> [fetched EXCEPT !.head = oid, !.workTree = Clean(oid)],
                   result |-> "Ok",
                   calls |-> <<"discover">> \o RemoteCalls(r) \o
                             <<"fetch", "refname_to_id", "find_object", "reset">>]

\* Index::retrieve_or_update
retrieve_or_update_swapped(r, t, dbg, fail, fh) ==
    IF ~exists(r)
    THEN update(r, t, dbg, fail) @@ [invoked |-> "update"]
    ELSE retrieve(r, t, fail, fh) @@ [invoked |-> "retrieve"]

retrieve_or_update(r, t, dbg, fail, fh) ==
    IF exists(r)
    THEN update(r, t, dbg, fail) @@ [invoked |-> "update"]
    ELSE retrieve(r, t, fail, fh) @@ [invoked |-> "retrieve"]

\* The kind of mirror at the path.
Kind(r) ==
    IF ~r.present THEN "no repository"
    ELSE IF r.origin = None THEN "no origin"
    ELSE IF r.origin[1] = INDEX_GIT_URL THEN "canonical origin"
    ELSE IF r.origin[1] = NonUtf8Url THEN "unreadable origin"
    ELSE "other origin"
Found(r) == [kind |-> Kind(r), modified |-> r.present /\ r.workTree.modified]

(***************************************************************************)
(* The mirror's operations as actions.  fail is the step of the call that  *)
(* the transport or the disk makes fail, fh whether the clone leaves a     *)
(* FETCH_HEAD behind.                                                      *)
(***************************************************************************)
MirrorIdle ==
    /\ repo = NoRepo /\ tips = [u \in RemoteUrls |-> 0] /\ debugBuild = FALSE
    /\ lastOp = "init" /\ lastResult = "none" /\ invoked = "none"
    /\ gitCalls = <<>> /\ pre = Found(NoRepo) /\ run = "start absent"

MirrorInit ==
    /\ repo \in Repos
    /\ tips \in [RemoteUrls -> Commits]
    /\ tips[NonUtf8Url] = tips[OtherUrl]
    /\ debugBuild \in BOOLEAN
    /\ lastOp = "init" /\ lastResult = "none" /\ invoked = "none"
    /\ gitCalls = <<>> /\ pre = Found(repo)
    /\ run = IF exists(repo) THEN "start present" ELSE "start absent"

Exists ==
    /\ lastOp' = "exists"
    /\ lastResult' = IF exists(repo) THEN "true" ELSE "false"
    /\ invoked' = "none"
    /\ gitCalls' = IF repo.present THEN <<"discover", "find_remote">> ELSE <<"discover">>
    /\ pre' = Found(repo)
    /\ UNCHANGED <<repo, tips, debugBuild, run, restOfMirror>>

Retrieve ==
    \E fail \in FailPoints, fh \in BOOLEAN :
        LET out == retrieve(repo, tips, fail, fh) IN
        /\ repo' = out.repo
        /\ lastOp' = "retrieve" /\ lastResult' = out.result
        /\ invoked' = "none" /\ gitCalls' = out.calls
        /\ pre' = Found(repo)
        /\ run' = "other calls"
        /\ UNCHANGED <<tips, debugBuild, restOfMirror>>

Update ==
    \E fail \in FailPoints :
        LET out == update(repo, tips, debugBuild, fail) IN
        /\ repo' = out.repo
        /\ lastOp' = "update" /\ lastResult' = out.result
        /\ invoked' = "none" /\ gitCalls' = out.calls
        /\ pre' = Found(repo)
        /\ run' = "other calls"
        /\ UNCHANGED <<tips, debugBuild, restOfMirror>>

RetrieveOrUpdate ==
    \E fail \in FailPoints, fh \in BOOLEAN :
        LET out == retrieve_or_update(repo, tips, debugBuild, fail, fh) IN
        /\ repo' = out.repo
        /\ lastOp' = "retrieve_or_update" /\ lastResult' = out.result
        /\ invoked' = out.invoked /\ gitCalls' = out.calls
        /\ pre' = Found(repo)
        /\ run' = IF out.result # "Ok" \/ run \in {"start present", "other calls"}
                  THEN "other calls"
                  ELSE "all ok from absent"
        /\ UNCHANGED <<tips, debugBuild, restOfMirror>>

\* The environment: somebody edits a tracked file of the working tree.
LocalEdit ==
    /\ repo.present
    /\ repo' = [repo EXCEPT !.workTree.modified = TRUE]
    /\ lastOp' = "local edit" /\ lastResult' = "none" /\ invoked' = "none"
    /\ gitCalls' = <<>> /\ pre' = Found(repo)
    /\ UNCHANGED <<tips, debugBuild, run, restOfMirror>>

\* The environment: a remote's master moves on.
UpstreamPush ==
    \E u \in {INDEX_GIT_URL, OtherUrl} :
        /\ tips[u] < MaxCommit
        /\ tips' = [v \in RemoteUrls |->
                      IF v = u \/ (u = OtherUrl /\ v = NonUtf8Url) THEN tips[v] + 1 ELSE tips[v]]
        /\ lastOp' = "upstream push" /\ lastResult' = "none" /\ invoked' = "none"
        /\ gitCalls' = <<>> /\ pre' = Found(repo)
        /\ UNCHANGED <<repo, debugBuild, run, restOfMirror>>

MirrorNext ==
    \/ Exists \/ Retrieve \/ Update \/ RetrieveOrUpdate \/ LocalEdit \/ UpstreamPush

(***************************************************************************)
(* Text.  A name or a path is the sequence of its characters' code points  *)
(* ('a' is 97, 'A' is 65, '1' is 49); a file's content is the sequence of  *)
(* its chunks of bytes: "\n", " ", the text of one complete JSON record    *)
(* ("{v1}", "{v2}") or a truncated one ("{").                              *)
(***************************************************************************)
Slash == 47          \* std::path::MAIN_SEPARATOR

\* slice::split / str::split: the pieces between the separators; n separators
\* give n + 1 pieces, and the empty sequence gives one empty piece.
RECURSIVE Split(_, _)
Split(s, sep) ==
    IF \A i \in 1..Len(s) : s[i] # sep
    THEN <<s>>
    ELSE LET i == CHOOSE k \in 1..Len(s) : s[k] = sep /\ \A j \in 1..(k - 1) : s[j] # sep
         IN  <<SubSeq(s, 1, i - 1)>> \o Split(SubSeq(s, i + 1, Len(s)), sep)

\* str::is_ascii
is_ascii(s) == \A i \in 1..Len(s) : s[i] < 128
\* str::to_ascii_lowercase: 'A'..'Z' move to 'a'..'z', the rest stays.
to_ascii_lowercase(s) ==
    [i \in 1..Len(s) |-> IF s[i] >= 65 /\ s[i] <= 90 THEN s[i] + 32 ELSE s[i]]

(***************************************************************************)
(* Crate::from_slice                                                       *)
(***************************************************************************)
Whitespace == {" ", "\n"}
\* The Version a complete record's text decodes to.
RecordTexts == {"{v1}", "{v2}"}
VersionOf(text) == IF text = "{v1}" THEN "v1" ELSE "v2"

\* serde_json::from_slice::<Version>(line): one record, white space around it
\* allowed; nothing, a truncated record or a second record is an error.
DecodeLine(line) ==
    LET body == SelectSeq(line, LAMBDA c : c \notin Whitespace) IN
    IF Len(body) = 0 THEN [ok |-> FALSE, error |-> "EOF while parsing a value"]
    ELSE IF body[1] \notin RecordTexts THEN [ok |-> FALSE, error |-> "EOF while parsing an object"]
    ELSE IF Len(body) > 1 THEN [ok |-> FALSE, error |-> "trailing characters"]
    ELSE [ok |-> TRUE, version |-> VersionOf(body[1])]

\* while bytes.last() == Some(&b'\n') { bytes = &bytes[..bytes.len()-1]; }
RECURSIVE TrimNewlines(_)
TrimNewlines(b) ==
    IF Len(b) > 0 /\ b[Len(b)] = "\n" THEN TrimNewlines(SubSeq(b, 1, Len(b) - 1)) ELSE b

\* for line in bytes.split(is_newline) { versions.push(serde_json::from_slice(line)?) }
RECURSIVE ParseLines(_, _)
ParseLines(lines, versions) ==
    IF lines = <<>> THEN [ok |-> TRUE, versions |-> versions]
    ELSE LET d == DecodeLine(Head(lines)) IN
         IF d.ok THEN ParseLines(Tail(lines), Append(versions, d.version)) ELSE d

from_slice(b) ==
    LET loop == ParseLines(Split(TrimNewlines(b), "\n"), <<>>) IN
    IF ~loop.ok THEN loop
    ELSE IF loop.versions = <<>> THEN [ok |-> FALSE, error |-> "crate must have versions"]
    ELSE loop

\* Crate::earliest_version / latest_version: indexing panics out of range.
earliest_version(c) ==
    IF Len(c.versions) = 0 THEN "panic" ELSE c.versions[1]
latest_version(c) ==
    IF Len(c.versions) = 0 THEN "panic" ELSE c.versions[Len(c.versions)]

(***************************************************************************)
(* The index tree: a function from the relative paths of the files under   *)
(* self.path to their contents.                                            *)
(***************************************************************************)
Segments(path) == Split(path, Slash)
RECURSIVE Join(_)
Join(segs) ==
    IF Len(segs) = 1 THEN segs[1] ELSE segs[1] \o <<Slash>> \o Join(Tail(segs))

Files(t) == DOMAIN t
\* The directories: the proper prefixes of the files' paths.
IsDir(t, path) ==
    \E f \in Files(t) :
        /\ Len(f) > Len(path) + 1
        /\ f[Len(path) + 1] = Slash
        /\ SubSeq(f, 1, Len(path)) = path
Dirs(t) ==
    UNION {{SubSeq(f, 1, n - 1) : n \in {m \in 2..Len(f) : f[m] = Slash}} : f \in Files(t)}
\* Path::exists
path_exists(t, path) == path \in Files(t) \/ IsDir(t, path)

\* Crate::new: std::fs::read, then from_slice.
Crate_new(t, path) ==
    IF path \in Files(t) THEN from_slice(t[path])
    ELSE [ok |-> FALSE, error |-> "read failed"]

\* The path Index::crate_ builds for a name, relative to self.path.
rel_path_upperSlice(crate_name) ==
    IF ~is_ascii(crate_name) THEN None
    ELSE LET name_lower == to_ascii_lowercase(crate_name) IN
         IF Len(name_lower) = 0 THEN None
         ELSE IF Len(name_lower) = 1 THEN Some(<<49, Slash>> \o name_lower)
         ELSE IF Len(name_lower) = 2 THEN Some(<<50, Slash>> \o name_lower)
         ELSE IF Len(name_lower) = 3
         THEN Some(<<51, Slash>> \o SubSeq(name_lower, 1, 1) \o <<Slash>> \o name_lower)
         ELSE Some(SubSeq(name_lower, 1, 2) \o <<Slash>> \o
                   SubSeq(name_lower, 2, 3) \o <<Slash>> \o name_lower)

rel_path(crate_name) ==
    IF ~is_ascii(crate_name) THEN None                 \* return None
    ELSE LET name_lower == to_ascii_lowercase(crate_name) IN
         IF Len(name_lower) = 0 THEN None              \* 0 => return None
         ELSE IF Len(name_lower) = 1 THEN Some(<<49, Slash>> \o name_lower)
         ELSE IF Len(name_lower) = 2 THEN Some(<<50, Slash>> \o name_lower)
         ELSE IF Len(name_lower) = 3
         THEN Some(<<51, Slash>> \o SubSeq(name_lower, 1, 1) \o <<Slash>> \o name_lower)
         ELSE Some(SubSeq(name_lower, 1, 2) \o <<Slash>> \o
                   SubSeq(name_lower, 3, 4) \o <<Slash>> \o name_lower)

\* Index::crate_
crate_unwrap(t, crate_name) ==
    LET p == rel_path(crate_name) IN
    IF p = None THEN [path |-> None, result |-> None, access |-> <<>>]
    ELSE IF ~path_exists(t, p[1])
    THEN [path |-> p, result |-> None, access |-> <<"exists">>]
    ELSE LET c == Crate_new(t, p[1]) IN
         [path |-> p,
          result |-> IF c.ok THEN Some(c) ELSE Some([ok |-> FALSE, error |-> "panic"]),
          access |-> <<"exists", "read">>]

crate_(t, crate_name) ==
    LET p == rel_path(crate_name) IN
    IF p = None THEN [path |-> None, result |-> None, access |-> <<>>]
    ELSE IF ~path_exists(t, p[1])                      \* if path.exists() .. else None
    THEN [path |-> p, result |-> None, access |-> <<"exists">>]
    ELSE LET c == Crate_new(t, p[1]) IN                \* Crate::new(..).ok()
         [path |-> p,
          result |-> IF c.ok THEN Some(c) ELSE None,
          access |-> <<"exists", "read">>]

(***************************************************************************)
(* glob::glob_with: the entries under self.path, files and directories,    *)
(* whose segments match the pattern's, in alphabetical order.              *)
(***************************************************************************)
\* "*" is 42, "[" 91, "]" 93, "." 46.
MatchSegment(pat, seg, literal_leading_dot) ==
    IF literal_leading_dot /\ seg[1] = 46 /\ pat[1] # 46 THEN FALSE
    ELSE IF pat = <<42>> THEN TRUE
    ELSE IF pat[1] = 91 /\ pat[Len(pat)] = 93
    THEN Len(seg) = 1 /\ \E i \in 2..(Len(pat) - 1) : pat[i] = seg[1]
    ELSE pat = seg

Matches(pattern, path, literal_leading_dot) ==
    LET ps == Segments(pattern)
        ss == Segments(path)
    IN  /\ Len(ps) = Len(ss)
        /\ \A i \in 1..Len(ps) : MatchSegment(ps[i], ss[i], literal_leading_dot)

RECURSIVE SeqLess(_, _)
SeqLess(a, b) ==
    IF b = <<>> THEN FALSE
    ELSE IF a = <<>> THEN TRUE
    ELSE IF a[1] # b[1] THEN a[1] < b[1]
    ELSE SeqLess(Tail(a), Tail(b))

\* Directory entries are sorted by name at every level.
RECURSIVE PathLess(_, _)
PathLess(a, b) ==
    IF b = <<>> THEN FALSE
    ELSE IF a = <<>> THEN TRUE
    ELSE IF a[1] # b[1] THEN SeqLess(a[1], b[1])
    ELSE PathLess(Tail(a), Tail(b))

RECURSIVE Sorted(_)
Sorted(S) ==
    IF S = {} THEN <<>>
    ELSE LET m == CHOOSE x \in S :
                    \A y \in S \ {x} : PathLess(Segments(x), Segments(y))
         IN  <<m>> \o Sorted(S \ {m})

glob_with(t, pattern, literal_leading_dot) ==
    Sorted({e \in Files(t) \cup Dirs(t) : Matches(pattern, e, literal_leading_dot)})

\* CrateIndexPaths::new: "{}/*/*/*" chained with "{}/[12]/*", both with
\* require_literal_leading_dot = true.
CrateIndexPaths_new_onlyDir1(t) ==
    glob_with(t, <<42, Slash, 42, Slash, 42>>, TRUE) \o
    glob_with(t, <<91, 49, 93, Slash, 42>>, TRUE)

CrateIndexPaths_new(t) ==
    glob_with(t, <<42, Slash, 42, Slash, 42>>, TRUE) \o
    glob_with(t, <<91, 49, 50, 93, Slash, 42>>, TRUE)

\* Crates::next: the first of the remaining paths that Crate::new parses.
RECURSIVE Crates_next(_, _)
Crates_next_stopAtError(t, rest) ==
    IF rest = <<>> THEN [item |-> None, rest |-> <<>>]
    ELSE LET c == Crate_new(t, Head(rest)) IN
         IF c.ok THEN [item |-> Some(c), rest |-> Tail(rest)]
         ELSE [item |-> None, rest |-> Tail(rest)]

Crates_next(t, rest) ==
    IF rest = <<>> THEN [item |-> None, rest |-> <<>>]         \* None
    ELSE LET c == Crate_new(t, Head(rest)) IN                   \* while let Some(p)
         IF c.ok THEN [item |-> Some(c), rest |-> Tail(rest)]   \* return Some(c)
         ELSE Crates_next(t, Tail(rest))

(***************************************************************************)
(* Trees.  The index keeps the file of a crate at the path crate_() builds *)
(* for its name; a mirror also holds config.json and the .git directory.   *)
(***************************************************************************)
\* "a", "2", "ab", "aba", "abab", "abba"
TreeNames ==
    {<<97>>, <<50>>, <<97, 98>>, <<97, 98, 97>>, <<97, 98, 97, 98>>, <<97, 98, 98, 97>>}
OneRecord  == <<"{v1}", "\n">>
TwoRecords == <<"{v1}", "\n", "{v2}", "\n">>
Truncated  == <<"{v1}", "\n", "{">>
FileContents == {OneRecord, TwoRecords, Truncated}
\* "config.json" and ".git/info/exclude"
ConfigJson == <<99, 111, 110, 102, 105, 103, 46, 106, 115, 111, 110>>
GitExclude ==
    <<46, 103, 105, 116, Slash, 105, 110, 102, 111, Slash, 101, 120, 99, 108, 117, 100, 101>>

\* The tree holding the crates of DOMAIN c with the contents c gives them.
TreeOf(c, extras) ==
    [p \in {rel_path(n)[1] : n \in DOMAIN c} \cup extras |->
        IF p \in extras THEN <<"{">>
        ELSE c[CHOOSE n \in DOMAIN c : rel_path(n) = Some(p)]]

Trees(maxFiles) ==
    {TreeOf(c, extras) :
        c \in UNION {[S -> FileContents] : S \in {T \in SUBSET TreeNames : Cardinality(T) <= maxFiles}},
        extras \in {{}, {ConfigJson, GitExclude}}}

\* The index files of a tree: the files at the path of some crate name.
IndexFiles(t) == {f \in Files(t) : \E n \in TreeNames : rel_path(n) = Some(f)}

TreeIdle == tree = <<>>
LookupIdle ==
    /\ lkName = <<>> /\ lkDone = FALSE
    /\ lkPath = None /\ lkResult = None /\ lkAccess = <<>>
IterIdle ==
    /\ pathsIt = [open |-> FALSE, done |-> FALSE, rest |-> <<>>] /\ pathsOut = <<>>
    /\ cratesIt = [open |-> FALSE, done |-> FALSE, rest |-> <<>>] /\ cratesOut = <<>>
ParseIdle == bytes = <<>> /\ parsed = None /\ picked = None
CodecIdle == ver = None /\ wire = None /\ decoded = None

(***************************************************************************)
(* Index::crate_ as an action                                              *)
(***************************************************************************)
\* 'a', 'b', 'A' and U+7121
Alphabet == {97, 98, 65, 28961}
Names == UNION {[1..k -> Alphabet] : k \in 0..MaxNameLen}

\* The other case of an ASCII letter; any other character stays.
swap_case(name) ==
    [i \in 1..Len(name) |->
        IF name[i] >= 65 /\ name[i] <= 90 THEN name[i] + 32
        ELSE IF name[i] >= 97 /\ name[i] <= 122 THEN name[i] - 32
        ELSE name[i]]

LookupTrees ==
    {TreeOf([n \in S |-> c], {ConfigJson, GitExclude}) :
        S \in {{}, TreeNames}, c \in FileContents}

\* The caller holds a name.
LookupInit ==
    /\ tree \in LookupTrees
    /\ lkName \in Names /\ lkDone = FALSE
    /\ lkPath = None /\ lkResult = None /\ lkAccess = <<>>

\* index.crate_(name)
Lookup ==
    LET out == crate_(tree, lkName) IN
    /\ lkDone' = TRUE
    /\ lkPath' = out.path
    /\ lkResult' = out.result
    /\ lkAccess' = out.access
    /\ UNCHANGED <<lkName, tree, mirrorVars, iterVars, parseVars, codecVars>>

\* A later call, with the same name in the other case.
LookupOtherCase ==
    /\ lkDone
    /\ LET out == crate_(tree, swap_case(lkName)) IN
       /\ lkName' = swap_case(lkName)
       /\ lkPath' = out.path
       /\ lkResult' = out.result
       /\ lkAccess' = out.access
    /\ UNCHANGED <<lkDone, tree, mirrorVars, iterVars, parseVars, codecVars>>

(***************************************************************************)
(* The iterators as actions                                                *)
(***************************************************************************)
\* Index::crate_index_paths
CrateIndexPathsNew ==
    /\ pathsIt' = [open |-> TRUE, done |-> FALSE, rest |-> CrateIndexPaths_new(tree)]
    /\ pathsOut' = <<>>
    /\ UNCHANGED <<tree, cratesIt, cratesOut, mirrorVars, lookupVars, parseVars, codecVars>>

\* CrateIndexPaths::next
CrateIndexPathsNext ==
    /\ pathsIt.open /\ ~pathsIt.done
    /\ IF pathsIt.rest = <<>>
       THEN pathsIt' = [pathsIt EXCEPT !.done = TRUE] /\ pathsOut' = pathsOut
       ELSE /\ pathsIt' = [pathsIt EXCEPT !.rest = Tail(pathsIt.rest)]
            /\ pathsOut' = Append(pathsOut, Head(pathsIt.rest))
    /\ UNCHANGED <<tree, cratesIt, cratesOut, mirrorVars, lookupVars, parseVars, codecVars>>

\* Index::crates
CratesNew ==
    /\ cratesIt' = [open |-> TRUE, done |-> FALSE, rest |-> CrateIndexPaths_new(tree)]
    /\ cratesOut' = <<>>
    /\ UNCHANGED <<tree, pathsIt, pathsOut, mirrorVars, lookupVars, parseVars, codecVars>>

\* Crates::next
CratesNext ==
    /\ cratesIt.open /\ ~cratesIt.done
    /\ LET out == Crates_next(tree, cratesIt.rest) IN
       IF out.item = None
       THEN cratesIt' = [cratesIt EXCEPT !.done = TRUE, !.rest = out.rest]
            /\ cratesOut' = cratesOut
       ELSE /\ cratesIt' = [cratesIt EXCEPT !.rest = out.rest]
            /\ cratesOut' = Append(cratesOut, out.item[1])
    /\ UNCHANGED <<tree, pathsIt, pathsOut, mirrorVars, lookupVars, parseVars, codecVars>>

TreeInit == tree \in Trees(MaxFiles)

(***************************************************************************)
(* Crate::from_slice and the accessors as actions                          *)
(***************************************************************************)
Chunks == {"\n", " ", "{v1}", "{v2}", "{"}
Contents == UNION {[1..k -> Chunks] : k \in 0..MaxBytes}

ParseInit == bytes \in Contents /\ parsed = None /\ picked = None

FromSlice ==
    /\ parsed = None
    /\ parsed' = Some(from_slice(bytes))
    /\ UNCHANGED <<bytes, picked, tree, mirrorVars, lookupVars, iterVars, codecVars>>

EarliestVersion ==
    /\ parsed # None /\ parsed[1].ok
    /\ picked' = Some([of |-> "earliest", version |-> earliest_version(parsed[1])])
    /\ UNCHANGED <<bytes, parsed, tree, mirrorVars, lookupVars, iterVars, codecVars>>

LatestVersion ==
    /\ parsed # None /\ parsed[1].ok
    /\ picked' = Some([of |-> "latest", version |-> latest_version(parsed[1])])
    /\ UNCHANGED <<bytes, parsed, tree, mirrorVars, lookupVars, iterVars, codecVars>>

(***************************************************************************)
(* The record codec: what #[derive(Serialize, Deserialize)] does for       *)
(* Version and Dependency, over JSON values.                               *)
(***************************************************************************)
JNull      == [j |-> "null"]
JBool(b)   == [j |-> "bool", v |-> b]
JStr(s)    == [j |-> "string", v |-> s]
JArr(a)    == [j |-> "array", v |-> a]
JObj(f)    == [j |-> "object", v |-> f]
NoFields   == [k \in {} |-> JNull]

ChecksumLen == 32    \* cksum: [u8; 32]

\* #[serde(rename_all="lowercase")] enum DependencyKind { Normal, Dev, Build }
DependencyKinds == {"Normal", "Dev", "Build"}
KindName(k) == IF k = "Normal" THEN "normal" ELSE IF k = "Dev" THEN "dev" ELSE "build"
KindNames == {KindName(k) : k \in DependencyKinds}
KindOfName(s) == CHOOSE k \in DependencyKinds : KindName(k) = s

\* Dependency::kind: self.kind.unwrap_or_default(), the default being Normal.
Dependency_kind(d) == IF d.kind = None THEN "Normal" ELSE d.kind[1]

\* #[serde(with = "hex")]: two lowercase hexadecimal digits for each byte.
HexDigits == <<"0", "1", "2", "3", "4", "5", "6", "7", "8", "9", "a", "b", "c", "d", "e", "f">>
hex_encode(data) ==
    [i \in 1..(2 * Len(data)) |->
        IF i % 2 = 1 THEN HexDigits[(data[(i + 1) \div 2] \div 16) + 1]
        ELSE HexDigits[(data[i \div 2] % 16) + 1]]
HexValue(c) ==
    IF \E n \in 1..16 : HexDigits[n] = c
    THEN Some((CHOOSE n \in 1..16 : HexDigits[n] = c) - 1)
    ELSE IF c \in {"A", "B", "C", "D", "E", "F"}
    THEN Some(IF c = "A" THEN 10 ELSE IF c = "B" THEN 11 ELSE IF c = "C" THEN 12
              ELSE IF c = "D" THEN 13 ELSE IF c = "E" THEN 14 ELSE 15)
    ELSE None
\* <[u8; 32]>::from_hex: the length must be exact and every digit hexadecimal.
hex_decode(text) ==
    IF Len(text) # 2 * ChecksumLen THEN [ok |-> FALSE]
    ELSE IF \E i \in 1..Len(text) : HexValue(text[i]) = None THEN [ok |-> FALSE]
    ELSE [ok |-> TRUE,
          value |-> [i \in 1..ChecksumLen |->
                        16 * HexValue(text[2 * i - 1])[1] + HexValue(text[2 * i])[1]]]

\* Serialize for Dependency: kind and package are skipped when they are None.
OptionalField(key, opt, json) == IF opt = None THEN NoFields ELSE (key :> json)

encode_Dependency_skipNormal(d) ==
    JObj([name |-> JStr(d.name),
          req |-> JStr(d.req),
          features |-> JArr([i \in 1..Len(d.features) |-> JStr(d.features[i])]),
          optional |-> JBool(d.optional),
          default_features |-> JBool(d.default_features),
          target |-> IF d.target = None THEN JNull ELSE JStr(d.target[1])]
         @@ (IF Dependency_kind(d) = "Normal" THEN NoFields
             ELSE ("kind" :> JStr(KindName(d.kind[1]))))
         @@ OptionalField("package", d.package,
                          IF d.package = None THEN JNull ELSE JStr(d.package[1])))

encode_Dependency(d) ==
    JObj([name |-> JStr(d.name),
          req |-> JStr(d.req),
          features |-> JArr([i \in 1..Len(d.features) |-> JStr(d.features[i])]),
          optional |-> JBool(d.optional),
          default_features |-> JBool(d.default_features),
          target |-> IF d.target = None THEN JNull ELSE JStr(d.target[1])]
         @@ OptionalField("kind", d.kind,
                          IF d.kind = None THEN JNull ELSE JStr(KindName(d.kind[1])))
         @@ OptionalField("package", d.package,
                          IF d.package = None THEN JNull ELSE JStr(d.package[1])))

\* Serialize for Version
encode_Version(v) ==
    JObj([name |-> JStr(v.name),
          vers |-> JStr(v.vers),
          deps |-> JArr([i \in 1..Len(v.deps) |-> encode_Dependency(v.deps[i])]),
          cksum |-> JStr(hex_encode(v.cksum)),
          features |-> JObj([k \in DOMAIN v.features |->
                                JArr([i \in 1..Len(v.features[k]) |->
                                         JStr(v.features[k][i])])]),
          yanked |-> JBool(v.yanked)])

\* Deserialize: a field of the given JSON type is present.
Has(o, key, type) == key \in DOMAIN o /\ o[key].j = type
\* Deserialize for an Option<T> field: absent or null is None.
OptionOk(o, key, type) == key \notin DOMAIN o \/ o[key].j \in {"null", type}
OptionOf(o, key) ==
    IF key \notin DOMAIN o \/ o[key].j = "null" THEN None ELSE Some(o[key].v)
StringArray(a) == a.j = "array" /\ \A i \in 1..Len(a.v) : a.v[i].j = "string"

\* Deserialize for Dependency
decode_Dependency(json) ==
    IF json.j # "object" THEN [ok |-> FALSE]
    ELSE LET o == json.v IN
         IF ~(/\ Has(o, "name", "string") /\ Has(o, "req", "string")
              /\ "features" \in DOMAIN o /\ StringArray(o.features)
              /\ Has(o, "optional", "bool") /\ Has(o, "default_features", "bool")
              /\ OptionOk(o, "target", "string")
              /\ OptionOk(o, "kind", "string")
              /\ (OptionOf(o, "kind") # None => OptionOf(o, "kind")[1] \in KindNames)
              /\ OptionOk(o, "package", "string"))
         THEN [ok |-> FALSE]
         ELSE [ok |-> TRUE,
               value |-> [name |-> o.name.v,
                          req |-> o.req.v,
                          features |-> [i \in 1..Len(o.features.v) |-> o.features.v[i].v],
                          optional |-> o.optional.v,
                          default_features |-> o.default_features.v,
                          target |-> OptionOf(o, "target"),
                          kind |-> IF OptionOf(o, "kind") = None THEN None
                                   ELSE Some(KindOfName(OptionOf(o, "kind")[1])),
                          package |-> OptionOf(o, "package")]]

\* Deserialize for Version
decode_Version(json) ==
    IF json.j # "object" THEN [ok |-> FALSE]
    ELSE LET o == json.v IN
         IF ~(/\ Has(o, "name", "string") /\ Has(o, "vers", "string")
              /\ Has(o, "deps", "array")
              /\ \A i \in 1..Len(o.deps.v) : decode_Dependency(o.deps.v[i]).ok
              /\ Has(o, "cksum", "string") /\ hex_decode(o.cksum.v).ok
              /\ Has(o, "features", "object")
              /\ \A k \in DOMAIN o.features.v : StringArray(o.features.v[k])
              /\ Has(o, "yanked", "bool"))
         THEN [ok |-> FALSE]
         ELSE [ok |-> TRUE,
               value |-> [name |-> o.name.v,
                          vers |-> o.vers.v,
                          deps |-> [i \in 1..Len(o.deps.v) |->
                                       decode_Dependency(o.deps.v[i]).value],
                          cksum |-> hex_decode(o.cksum.v).value,
                          features |-> [k \in DOMAIN o.features.v |->
                                           [i \in 1..Len(o.features.v[k].v) |->
                                               o.features.v[k].v[i].v]],
                          yanked |-> o.yanked.v]]

\* The Versions the codec is run on.
Dependencies ==
    [name : {"serde_lib"}, req : {"^1.0"}, features : {<<"derive">>},
     optional : BOOLEAN, default_features : {TRUE},
     target : {None, Some("cfg(unix)")},
     kind : {None} \cup {Some(k) : k \in DependencyKinds},
     package : {None, Some("serde")}]
Checksums ==
    {[i \in 1..ChecksumLen |-> 0], [i \in 1..ChecksumLen |-> (i * 37 + 171) % 256]}
Versions ==
    [name : {"sval"}, vers : {"0.0.1"},
     deps : UNION {[1..n -> Dependencies] : n \in 0..MaxDeps},
     cksum : Checksums,
     features : {NoFields, ("default" :> <<"std">>)},
     yanked : BOOLEAN]

CodecInit == ver \in {Some(v) : v \in Versions} /\ wire = None /\ decoded = None

Encode ==
    /\ wire = None
    /\ wire' = Some(encode_Version(ver[1]))
    /\ UNCHANGED <<ver, decoded, tree, mirrorVars, lookupVars, iterVars, parseVars>>

Decode ==
    /\ wire # None /\ decoded = None
    /\ decoded' = Some(decode_Version(wire[1]))
    /\ UNCHANGED <<ver, wire, tree, mirrorVars, lookupVars, iterVars, parseVars>>

(***************************************************************************)
(* Specifications                                                          *)
(***************************************************************************)
\* The mirror: Index::exists, retrieve, update, retrieve_or_update.
InitMirror == MirrorInit /\ TreeIdle /\ LookupIdle /\ IterIdle /\ ParseIdle /\ CodecIdle
SpecMirror == InitMirror /\ [][MirrorNext]_vars

\* Index::crate_ on every name of up to MaxNameLen characters.
InitLookup == LookupInit /\ MirrorIdle /\ IterIdle /\ ParseIdle /\ CodecIdle
LookupNext == Lookup \/ LookupOtherCase
SpecLookup == InitLookup /\ [][LookupNext]_vars

\* Index::crate_index_paths over every tree of up to MaxFiles index files.
InitTree == TreeInit /\ MirrorIdle /\ LookupIdle /\ IterIdle /\ ParseIdle /\ CodecIdle
PathsNext == CrateIndexPathsNew \/ CrateIndexPathsNext
SpecPaths == InitTree /\ [][PathsNext]_vars

\* Index::crates over the same trees.
CratesNextStep == CratesNew \/ CratesNext
SpecCrates == InitTree /\ [][CratesNextStep]_vars

\* Crate::from_slice on every content of up to MaxBytes chunks.
InitParse == ParseInit /\ MirrorIdle /\ TreeIdle /\ LookupIdle /\ IterIdle /\ CodecIdle
ParseNext == FromSlice \/ EarliestVersion \/ LatestVersion
SpecParse == InitParse /\ [][ParseNext]_vars

\* The codec on every Version of up to MaxDeps dependencies.
InitCodec == CodecInit /\ MirrorIdle /\ TreeIdle /\ LookupIdle /\ IterIdle /\ ParseIdle
CodecNext == Encode \/ Decode
SpecCodec == InitCodec /\ [][CodecNext]_vars

Init == InitMirror
Next == MirrorNext
Spec == SpecMirror

(***************************************************************************)
(* Properties of the mirror (SpecMirror)                                   *)
(***************************************************************************)
\* The mirror is Present (4.5): a repository without an origin, or one whose
\* origin is the canonical URL.
MirrorKinds == {"no origin", "canonical origin"}
CalledUpdate ==
    lastOp = "update" \/ (lastOp = "retrieve_or_update" /\ invoked = "update")

C2_PresentAfterOkCalls ==
    run = "all ok from absent" => exists(repo) /\ Kind(repo) = "canonical origin"
C2_Witness ==
    /\ run = "all ok from absent"
    /\ lastOp = "retrieve_or_update" /\ invoked = "update" /\ lastResult = "Ok"

\* C3 as stated: exists() is true iff a repository is discovered and it has no
\* origin or its origin's URL is the canonical one.
C3_AsStated ==
    lastOp = "exists" => (lastResult = "true" <=> pre.kind \in MirrorKinds)
\* C3: exists() is true iff a repository is discovered and it has no origin, or
\* its origin's URL is the canonical one, or its origin's URL is not valid
\* UTF-8 (Remote::url() is None); it is false in every other case.
C3_ExistsIff ==
    lastOp = "exists" =>
        (lastResult = "true" <=> pre.kind \in MirrorKinds \cup {"unreadable origin"})
C3_Witness ==
    lastOp = "exists" /\ pre.kind = "unreadable origin" /\ lastResult = "true"

ResolvedFile == lkPath # None /\ lkPath[1] \in Files(tree)

ShardTable(n) ==
    IF Len(n) = 1 THEN <<(<<49>>), n>>
    ELSE IF Len(n) = 2 THEN <<(<<50>>), n>>
    ELSE IF Len(n) = 3 THEN <<(<<51>>), (<<n[1]>>), n>>
    ELSE <<(<<n[1], n[2]>>), (<<n[3], n[4]>>), n>>
Lowered(name) == [i \in 1..Len(name) |-> IF name[i] \in 65..90 THEN name[i] + 32 ELSE name[i]]
ShardReference(name) ==
    IF name = <<>> \/ \E i \in 1..Len(name) : name[i] > 127 THEN None
    ELSE Some(Join(ShardTable(Lowered(name))))

\* C8: the path crate_() resolves is the one of the sharding table: none, and
\* no file access, for an empty name or one with a non-ASCII character; the
\* table's path for the lowercased name otherwise; the same path for the name
\* in the other case, whatever was looked up before.
C8_ResolvesByTable ==
    lkDone =>
        /\ lkPath = ShardReference(lkName)
        /\ lkPath = None => lkAccess = <<>> /\ lkResult = None
        /\ lkPath # None => Head(lkAccess) = "exists"
        /\ crate_(tree, swap_case(lkName)).path = lkPath
C8_Witness ==
    /\ lkDone /\ lkName = <<65, 98, 65, 98>>
    /\ lkPath = Some(<<97, 98, Slash, 97, 98, Slash, 97, 98, 97, 98>>)
    /\ lkResult # None

(***************************************************************************)
(* Properties of the enumeration (SpecPaths, SpecCrates)                   *)
(***************************************************************************)
Range(q) == {q[i] : i \in 1..Len(q)}

\* The crates of the paths that parse, in the paths' order.
ParsedOf(t, paths) ==
    LET good == SelectSeq(paths, LAMBDA p : Crate_new(t, p).ok)
    IN  [i \in 1..Len(good) |-> Crate_new(t, good[i])]

\* C6: Crates yields the parsed crates of the enumerated paths that parse, in
\* enumeration order, and nothing else: what it has yielded so far is a prefix
\* of them, and all of them once it has returned None; a path that does not
\* parse is skipped and the paths after it are still visited.
C6_YieldsAllThatParse ==
    cratesIt.open =>
        LET all == ParsedOf(tree, CrateIndexPaths_new(tree)) IN
        /\ Len(cratesOut) <= Len(all)
        /\ cratesOut = SubSeq(all, 1, Len(cratesOut))
        /\ cratesIt.done => cratesOut = all
C6_Witness ==
    /\ cratesIt.done /\ Len(cratesOut) >= 2
    /\ ~Crate_new(tree, CrateIndexPaths_new(tree)[1]).ok
    /\ ~Crate_new(tree, CrateIndexPaths_new(tree)[3]).ok

ZeroRecords(b) == \A i \in 1..Len(b) : b[i] \in Whitespace

\* C9: a content of zero records (empty, only newlines, only white space)
\* gives the error 'crate must have versions' and never a Crate; a Crate holds
\* at least one version, earliest_version() is its first record and
\* latest_version() its last.
C9_EmptyHistory ==
    /\ parsed # None /\ ZeroRecords(bytes) =>
           parsed[1] = [ok |-> FALSE, error |-> "crate must have versions"]
    /\ parsed # None /\ parsed[1].ok => Len(parsed[1].versions) >= 1
    /\ picked # None => picked[1].version # "panic"
\* What holds of the code: zero records give an error, though never that one.
C9_ZeroRecordsFail ==
    /\ parsed # None /\ ZeroRecords(bytes) =>
           ~parsed[1].ok /\ parsed[1].error = "EOF while parsing a value"
    /\ parsed # None => (~parsed[1].ok => parsed[1].error # "crate must have versions")
    /\ parsed # None /\ parsed[1].ok => Len(parsed[1].versions) >= 1
    /\ picked # None =>
           picked[1].version = IF picked[1].of = "earliest"
                               THEN parsed[1].versions[1]
                               ELSE parsed[1].versions[Len(parsed[1].versions)]

(***************************************************************************)
(* Properties of the codec (SpecCodec)                                     *)
(***************************************************************************)
RoundTrip == decoded[1].ok /\ decoded[1].value = ver[1]
WireDep(i) == wire[1].v.deps.v[i].v

\* C10 as stated: decoding the encoding gives the Version back, kind being
\* left out of the encoding iff it is Normal and package iff it is absent.
C10_AsStated ==
    decoded # None =>
        /\ RoundTrip
        /\ \A i \in 1..Len(ver[1].deps) :
               /\ "kind" \notin DOMAIN WireDep(i) <=> Dependency_kind(ver[1].deps[i]) = "Normal"
               /\ "package" \notin DOMAIN WireDep(i) <=> ver[1].deps[i].package = None
\* C10: decoding the encoding gives the Version back on every field, kind
\* being left out of the encoding iff it is absent (a kind that is present and
\* Normal is written as "normal") and package iff it is absent.
C10_RoundTrip ==
    decoded # None =>
        /\ RoundTrip
        /\ \A i \in 1..Len(ver[1].deps) :
               /\ "kind" \notin DOMAIN WireDep(i) <=> ver[1].deps[i].kind = None
               /\ "kind" \in DOMAIN WireDep(i) =>
                      WireDep(i).kind = JStr(KindName(ver[1].deps[i].kind[1]))
               /\ "package" \notin DOMAIN WireDep(i) <=> ver[1].deps[i].package = None
C10_Witness ==
    /\ decoded # None /\ Len(ver[1].deps) = 1
    /\ ver[1].deps[1].kind = Some("Normal") /\ ver[1].deps[1].package = None
    /\ WireDep(1).kind = JStr("normal")
    /\ decoded[1].value.deps[1].kind = Some("Normal")

====
